---- MODULE Spec2Model ----
(***************************************************************************)
(* mowl: a minimal colourised backend for the `log` facade.                *)
(*                                                                         *)
(* The model follows src/src/lib.rs.  The process-wide state is the        *)
(* facade's logger slot (log::set_boxed_logger / log::set_max_level); each *)
(* thread is either idle, inside one of the init* entry points, or inside  *)
(* Logger::log.  Logger::log_result is modelled one sink operation per     *)
(* step, every operation with the outcomes its `?` distinguishes.          *)
(***************************************************************************)
EXTENDS Naturals, Sequences, FiniteSets

VARIABLES
    state,      \* facade: has a logger been installed ("UNINITIALIZED" / "INITIALIZED")
    logger,     \* facade: the installed Box<Logger>, NoLogger before
    max_level,  \* facade: log::max_level()
    pc,         \* per thread: where the thread is
    arg,        \* per thread: the Logger the running/last init* call constructed
    ret,        \* per thread: what the last init* call returned
    self,       \* per thread: the &Logger the running/last Logger::log call was made on
    rec,        \* per thread: the &Record of that call
    term,       \* per thread: what term::stderr() answered in that call
    sink,       \* per thread: the LogSink `t` owned by log_result, "none" when none is alive
    ops,        \* per thread: the operations log_result issued on its LogSink, in order
    out,        \* per thread: what that call delivered to the process's streams, in order
    err,        \* per thread: the error log_result returned, "none" if none
    diagTo,     \* per thread: the stream Logger::log printed "Logging failed" to
    entry,      \* per thread: the init* function the running/last registration entered by
    handle,     \* per thread: the identity of the LogSink value `t`, "none" when none is alive
    style,      \* the foreground the terminal behind stderr shows, NotATty if there is none
    own,        \* per thread: a Logger the thread holds by value (not registered)
    conv        \* per thread: the last LogError built by error.rs, and what it was built from

vars == <<state, logger, max_level, pc, arg, ret, self, rec, term, sink, ops, out, err, diagTo,
          entry, handle, style, own, conv>>

call   == <<self, rec, term, sink, ops, out, err, diagTo, handle>>

\* What the entry points and the handler of the logger never touch.
aside  == <<own, conv>>

----------------------------------------------------------------------------
(* Values *)

Threads == {"t1", "t2"}

\* log::Level and log::LevelFilter
Levels       == {"Error", "Warn", "Info", "Debug", "Trace"}
LevelFilters == {"Off"} \cup Levels

\* The values now().rfc3339() may print: the clock is read when the timestamp is written.
Times == {"T1", "T2"}

\* record.module_path(): Option<&str>
ModulePaths == {"None", "net"}

\* record.args()
Messages == {"listening"}

Records == [level : Levels, module_path : ModulePaths, args : Messages]

\* The records the threads of the whole-program specification emit.
EmitRecords == {r \in Records : r.level \in {"Error", "Info", "Trace"} /\ r.module_path = "net"}

\* struct Logger { level, enable_colors }
Loggers  == [level : LevelFilters, enable_colors : BOOLEAN]
NoLogger == [level |-> "none", enable_colors |-> FALSE]
NoRecord == [level |-> "none", module_path |-> "None", args |-> "none"]
NoEntry  == [fn |-> "none", log_level |-> "none"]

\* stderr is a file or a pipe: no terminal interprets the bytes written to it.
NotATty  == "none"

\* error.rs: no source error; no conversion made yet.
NoError  == [type |-> "none", kind |-> "none", custom |-> "none"]
NoConv   == [fn |-> "none", err |-> NoError, code |-> "none", description |-> "none",
             result |-> [code |-> "none", description |-> "none", cause |-> NoError]]

\* enum ErrorType
ErrorTypes == {"Other", "Internal"}

\* io::Error values: a bare ErrorKind, or io::Error::new(kind, text)
IoErrorKinds == {"NotFound", "BrokenPipe", "Other"}
IoErrors == [type : {"io::Error"}, kind : IoErrorKinds, custom : {"none", "Not found", "gone"}]

\* term::Error values
TermErrors ==
    [type : {"term::Error"},
     kind : {"NotSupported", "TermUnset", "TerminfoEntryNotFound", "ColorOutOfRange"},
     custom : {"none"}]

\* The values bail is handed as `description: &fmt::Display`, as to_string() prints them.
Displays == {"boom", "", "42"}

\* Level as usize / LevelFilter as usize: the discriminants the `<=` of line 106 compares.
Level_as_usize(l) ==
    CASE l = "Error" -> 1
      [] l = "Warn"  -> 2
      [] l = "Info"  -> 3
      [] l = "Debug" -> 4
      [] l = "Trace" -> 5

LevelFilter_as_usize(f) ==
    CASE f = "Off"   -> 0
      [] f = "Error" -> 1
      [] f = "Warn"  -> 2
      [] f = "Info"  -> 3
      [] f = "Debug" -> 4
      [] f = "Trace" -> 5

\* impl Display for Level: what "{}" prints for record.level()
Level_fmt(l) ==
    CASE l = "Error" -> "ERROR"
      [] l = "Warn"  -> "WARN"
      [] l = "Info"  -> "INFO"
      [] l = "Debug" -> "DEBUG"
      [] l = "Trace" -> "TRACE"

----------------------------------------------------------------------------
(* Initial state: nothing registered, every thread idle. *)

IdleCall ==
    /\ self   = [t \in Threads |-> NoLogger]
    /\ rec    = [t \in Threads |-> NoRecord]
    /\ term   = [t \in Threads |-> "unqueried"]
    /\ sink   = [t \in Threads |-> "none"]
    /\ ops    = [t \in Threads |-> <<>>]
    /\ out    = [t \in Threads |-> <<>>]
    /\ err    = [t \in Threads |-> "none"]
    /\ diagTo = [t \in Threads |-> "none"]
    /\ handle = [t \in Threads |-> "none"]

Init ==
    /\ state = "UNINITIALIZED"
    /\ logger = NoLogger
    /\ max_level = "Off"
    /\ pc  = [t \in Threads |-> "idle"]
    /\ arg = [t \in Threads |-> NoLogger]
    /\ ret = [t \in Threads |-> "none"]
    /\ entry = [t \in Threads |-> NoEntry]
    /\ style = NotATty
    /\ own  = [t \in Threads |-> NoLogger]
    /\ conv = [t \in Threads |-> NoConv]
    /\ IdleCall

\* A thread that is not inside a call of the crate (its last call, if any, has returned).
AtRest(t) == pc[t] \in {"idle", "init_done", "log_done"}

\* Entering a call forgets what the thread's previous call left behind.
ResetCall(t) ==
    /\ self'   = [self   EXCEPT ![t] = NoLogger]
    /\ rec'    = [rec    EXCEPT ![t] = NoRecord]
    /\ term'   = [term   EXCEPT ![t] = "unqueried"]
    /\ sink'   = [sink   EXCEPT ![t] = "none"]
    /\ ops'    = [ops    EXCEPT ![t] = <<>>]
    /\ out'    = [out    EXCEPT ![t] = <<>>]
    /\ err'    = [err    EXCEPT ![t] = "none"]
    /\ diagTo' = [diagTo EXCEPT ![t] = "none"]
    /\ handle' = [handle EXCEPT ![t] = "none"]

----------------------------------------------------------------------------
(* Registration *)

\* Mutant: the logger slot is overwritten by every registration.
set_boxed_logger_overwrite == TRUE

\* log::set_boxed_logger: install-if-absent, one atomic compare-and-swap on the
\* facade's state.  TRUE iff this call may install.
set_boxed_logger_ok == state = "UNINITIALIZED"

\* Mutant: set_max_level is called whatever set_boxed_logger returned.
max_level_on_err_set(log_level) == log_level

\* Result::map on an Err: the closure |()| log::set_max_level(log_level) is not run,
\* the facade's max level stays what it is.
max_level_on_err(log_level) == max_level

\* log::set_boxed_logger(Box::new(Logger { .. })).map(..)? : the first half of the
\* init* functions.  On Ok the closure (set_max_level) is still to run; on Err the `?`
\* returns the error and the boxed Logger is dropped.
Register(t, lg) ==
    /\ AtRest(t)
    /\ arg' = [arg EXCEPT ![t] = lg]
    /\ ResetCall(t)
    /\ UNCHANGED <<style, aside>>
    /\ IF set_boxed_logger_ok
         THEN /\ state'  = "INITIALIZED"
              /\ logger' = lg
              /\ max_level' = max_level
              /\ pc'  = [pc  EXCEPT ![t] = "set_max_level"]
              /\ ret' = [ret EXCEPT ![t] = "none"]
         ELSE /\ UNCHANGED <<state, logger>>
              /\ max_level' = max_level_on_err(lg.level)
              /\ pc'  = [pc  EXCEPT ![t] = "init_done"]
              /\ ret' = [ret EXCEPT ![t] = "AlreadyInitialized"]

\* The body of init_with_level: the Logger it builds, handed to the facade.
init_with_level_body(t, log_level) ==
    Register(t, [level |-> log_level, enable_colors |-> TRUE])

\* pub fn init_with_level(log_level)
init_with_level(t, log_level) ==
    /\ entry' = [entry EXCEPT ![t] = [fn |-> "init_with_level", log_level |-> log_level]]
    /\ init_with_level_body(t, log_level)

\* Mutant: the body of init_with_level copied without changing the flag.
init_with_level_and_without_colors_copied(t, log_level) ==
    /\ entry' = [entry EXCEPT ![t] =
                    [fn |-> "init_with_level_and_without_colors", log_level |-> log_level]]
    /\ Register(t, [level |-> log_level, enable_colors |-> TRUE])

\* pub fn init_with_level_and_without_colors(log_level)
init_with_level_and_without_colors(t, log_level) ==
    /\ entry' = [entry EXCEPT ![t] =
                    [fn |-> "init_with_level_and_without_colors", log_level |-> log_level]]
    /\ Register(t, [level |-> log_level, enable_colors |-> FALSE])

\* pub fn init(): init_with_level(LevelFilter::Trace)
init(t) ==
    /\ entry' = [entry EXCEPT ![t] = [fn |-> "init", log_level |-> "none"]]
    /\ init_with_level_body(t, "Trace")

\* Mutant: the facade is opened to every level, whatever level was asked for.
set_max_level_trace(t) ==
    /\ pc[t] = "set_max_level"
    /\ max_level' = "Trace"
    /\ pc'  = [pc  EXCEPT ![t] = "init_done"]
    /\ ret' = [ret EXCEPT ![t] = "Ok"]
    /\ UNCHANGED <<state, logger, arg, entry>>
    /\ UNCHANGED <<call, style, aside>>

\* .map(|()| log::set_max_level(log_level)) and the final Ok(())
set_max_level(t) ==
    /\ pc[t] = "set_max_level"
    /\ max_level' = arg[t].level
    /\ pc'  = [pc  EXCEPT ![t] = "init_done"]
    /\ ret' = [ret EXCEPT ![t] = "Ok"]
    /\ UNCHANGED <<state, logger, arg, entry>>
    /\ UNCHANGED <<call, style, aside>>

----------------------------------------------------------------------------
(* LogSink *)

\* The stream both LogSink variants wrap: Terminal(Box<StderrTerminal>), Fallback(io::Stderr)
SinkStream == "stderr"

\* LogSink::new(): Terminal if term::stderr() is Some, else Fallback.
LogSink_new(term_stderr) ==
    IF term_stderr = "Some" THEN "Terminal" ELSE "Fallback"

\* What one operation on a LogSink does: its Result, and what it delivers to the stream.
\* `ok` is whether the underlying terminal/stream operation succeeds, should the
\* operation reach it.
Esc(data)  == [stream |-> SinkStream, esc |-> TRUE,  data |-> data]
Text(data) == [stream |-> SinkStream, esc |-> FALSE, data |-> data]

\* Mutant: the Fallback variant forwards the colour to the stream as well.
LogSink_fg_forward(s, color, ok) ==
    IF ok THEN [e |-> "none", sent |-> <<Esc(<<"setaf", color>>)>>]
          ELSE [e |-> "term::Error", sent |-> <<>>]

\* LogSink::fg: forwards to the terminal on Terminal, nothing on Fallback.
LogSink_fg(s, color, ok) ==
    IF s = "Terminal"
      THEN IF ok THEN [e |-> "none", sent |-> <<Esc(<<"setaf", color>>)>>]
                 ELSE [e |-> "term::Error", sent |-> <<>>]
      ELSE [e |-> "none", sent |-> <<>>]

\* Mutant: reset is not forwarded to the terminal.
LogSink_reset_dropped(s, ok) == [e |-> "none", sent |-> <<>>]

\* LogSink::reset: forwards to the terminal on Terminal, nothing on Fallback.
LogSink_reset(s, ok) ==
    IF s = "Terminal"
      THEN IF ok THEN [e |-> "none", sent |-> <<Esc(<<"sgr0">>)>>]
                 ELSE [e |-> "term::Error", sent |-> <<>>]
      ELSE [e |-> "none", sent |-> <<>>]

\* Mutant: the Fallback arm of write_fmt reports success without writing.
LogSink_write_fmt_fallback_skips(s, data, ok) ==
    IF s = "Fallback" THEN [e |-> "none", sent |-> <<>>]
    ELSE IF ok THEN [e |-> "none", sent |-> <<Text(data)>>]
               ELSE [e |-> "io::Error", sent |-> <<>>]

\* impl Write for LogSink, write_fmt: both variants forward to the stream.  A failed
\* write is modelled as delivering nothing of its segment.
LogSink_write_fmt(s, data, ok) ==
    IF ok THEN [e |-> "none", sent |-> <<Text(data)>>]
          ELSE [e |-> "io::Error", sent |-> <<>>]

\* The LogSink values a program with two threads can have alive at a time.
SinkIds == {"sink1", "sink2"}

\* Mutant: one LogSink is built once and handed to every call.
Box_cached == "sink1"

\* The value LogSink::new() returns is a new one: no LogSink alive is that value.
Box_new == CHOOSE id \in SinkIds : \A u \in Threads : handle[u] # id

\* `t` goes out of scope: the LogSink is dropped with the call that made it.
Drop(id) == "none"

\* What the terminal behind stderr shows after the bytes `sent` have reached it.
StyleAfter(st, sent) ==
    IF st = NotATty \/ sent = <<>> \/ ~sent[1].esc THEN st
    ELSE IF sent[1].data[1] = "setaf" THEN sent[1].data[2] ELSE "default"

----------------------------------------------------------------------------
(* Logger *)

\* Mutants: `<` for `<=`; no filtering at all.
enabled_strict(lg, level) == Level_as_usize(level) < LevelFilter_as_usize(lg.level)

enabled_always(lg, level) == TRUE

\* fn enabled(&self, metadata): metadata.level() <= self.level
enabled(lg, level) == Level_as_usize(level) <= LevelFilter_as_usize(lg.level)

\* Mutant: the arms of Warn and Info exchanged.
LevelColor_swapped(level) ==
    CASE level = "Error" -> "BRIGHT_RED"
      [] level = "Warn"  -> "BRIGHT_GREEN"
      [] level = "Info"  -> "BRIGHT_YELLOW"
      [] level = "Debug" -> "BRIGHT_CYAN"
      [] level = "Trace" -> "BRIGHT_WHITE"

\* The colour log_result's match picks for record.level()
LevelColor(level) ==
    CASE level = "Error" -> "BRIGHT_RED"
      [] level = "Warn"  -> "BRIGHT_YELLOW"
      [] level = "Info"  -> "BRIGHT_GREEN"
      [] level = "Debug" -> "BRIGHT_CYAN"
      [] level = "Trace" -> "BRIGHT_WHITE"

\* record.module_path().unwrap_or("?")
Origin(r) == IF r.module_path = "None" THEN "?" ELSE r.module_path

\* The four texts log_result formats
TimestampText(ts) == <<"[", ts, "] ">>
OriginText(r)     == <<"[", Origin(r), "] ">>
LevelText(r)      == <<"[", Level_fmt(r.level), "] ">>
MessageText(r)    == <<r.args, "\n">>

\* Mutant: the reset of line 143 is not guarded by enable_colors.
AfterWrite_reset_unguarded(lg, seg) ==
    CASE seg = "start"     -> IF lg.enable_colors THEN "fg_timestamp" ELSE "write_timestamp"
      [] seg = "timestamp" -> IF lg.enable_colors THEN "fg_origin" ELSE "write_origin"
      [] seg = "origin"    -> IF lg.enable_colors THEN "fg_level" ELSE "write_level"
      [] seg = "level"     -> "reset"

\* The statement log_result executes after the write of segment `seg`: each
\* `if self.enable_colors { .. }` is skipped when colours are off.
AfterWrite(lg, seg) ==
    CASE seg = "start"     -> IF lg.enable_colors THEN "fg_timestamp" ELSE "write_timestamp"
      [] seg = "timestamp" -> IF lg.enable_colors THEN "fg_origin" ELSE "write_origin"
      [] seg = "origin"    -> IF lg.enable_colors THEN "fg_level" ELSE "write_level"
      [] seg = "level"     -> IF lg.enable_colors THEN "reset" ELSE "write_message"

\* The facade hands a record to the installed logger (log::logger().log(&record)).
\* Before a logger is installed log::logger() is the facade's no-op logger.
Dispatch(t, r) ==
    /\ AtRest(t)
    /\ state = "INITIALIZED"
    /\ self'   = [self   EXCEPT ![t] = logger]
    /\ rec'    = [rec    EXCEPT ![t] = r]
    /\ term'   = [term   EXCEPT ![t] = "unqueried"]
    /\ sink'   = [sink   EXCEPT ![t] = "none"]
    /\ ops'    = [ops    EXCEPT ![t] = <<>>]
    /\ out'    = [out    EXCEPT ![t] = <<>>]
    /\ err'    = [err    EXCEPT ![t] = "none"]
    /\ diagTo' = [diagTo EXCEPT ![t] = "none"]
    /\ handle' = [handle EXCEPT ![t] = "none"]
    /\ pc'     = [pc     EXCEPT ![t] = "log"]
    /\ arg'    = [arg    EXCEPT ![t] = NoLogger]
    /\ ret'    = [ret    EXCEPT ![t] = "none"]
    /\ entry'  = [entry  EXCEPT ![t] = NoEntry]
    /\ UNCHANGED <<state, logger, max_level, style, aside>>

\* fn log(&self, record), line 110: the record is formatted only if enabled;
\* otherwise log returns at once.
log(t) ==
    /\ pc[t] = "log"
    /\ pc' = [pc EXCEPT ![t] = IF enabled(self[t], rec[t].level) THEN "new" ELSE "log_done"]
    /\ UNCHANGED <<state, logger, max_level, arg, ret, entry>>
    /\ UNCHANGED <<call, style, aside>>

\* log_result, line 123: let mut t = LogSink::new().  Whether term::stderr() finds a
\* terminal is the environment's answer, asked anew in every call.
log_result_new(t) ==
    /\ pc[t] = "new"
    /\ \E term_stderr \in {"Some", "None"} :
          /\ term' = [term EXCEPT ![t] = term_stderr]
          /\ sink' = [sink EXCEPT ![t] = LogSink_new(term_stderr)]
    /\ handle' = [handle EXCEPT ![t] = Box_new]
    /\ pc' = [pc EXCEPT ![t] = AfterWrite(self[t], "start")]
    /\ UNCHANGED <<state, logger, max_level, arg, ret, entry, aside>>
    /\ UNCHANGED <<self, rec, ops, out, err, diagTo, style>>

\* Mutant: the Result of the operation is discarded (no `?`), log_result goes on.
SinkStep_discard_result(t, op, r, then) ==
    /\ ops' = [ops EXCEPT ![t] = Append(@, op)]
    /\ out' = [out EXCEPT ![t] = @ \o r.sent]
    /\ err' = err
    /\ IF then # "return"
         THEN /\ pc' = [pc EXCEPT ![t] = then]
              /\ sink' = sink
              /\ handle' = handle
         ELSE /\ pc' = [pc EXCEPT ![t] = "log_done"]
              /\ sink' = [sink EXCEPT ![t] = "none"]
              /\ handle' = [handle EXCEPT ![t] = "none"]
    /\ style' = StyleAfter(style, r.sent)
    /\ UNCHANGED <<state, logger, max_level, arg, ret, entry, aside>>
    /\ UNCHANGED <<self, rec, term, diagTo>>

\* One operation `op` of log_result on its sink, with result `r`; `then` is the
\* statement after it.  An Err leaves log_result through `?` (the sink is dropped,
\* the error goes to log); the Ok of the last operation leaves it through Ok(()).
SinkStep(t, op, r, then) ==
    /\ ops' = [ops EXCEPT ![t] = Append(@, op)]
    /\ out' = [out EXCEPT ![t] = @ \o r.sent]
    /\ err' = [err EXCEPT ![t] = r.e]
    /\ IF r.e = "none" /\ then # "return"
         THEN /\ pc' = [pc EXCEPT ![t] = then]
              /\ sink' = sink
              /\ handle' = handle
         ELSE /\ pc' = [pc EXCEPT ![t] = IF r.e = "none" THEN "log_done" ELSE "err"]
              /\ sink' = [sink EXCEPT ![t] = "none"]
              /\ handle' = [handle EXCEPT ![t] = Drop(handle[t])]
    /\ style' = StyleAfter(style, r.sent)
    /\ UNCHANGED <<state, logger, max_level, arg, ret, entry, aside>>
    /\ UNCHANGED <<self, rec, term, diagTo>>

FgOp(seg, color) == [op |-> "fg",    seg |-> seg, arg |-> <<color>>]
ResetOp          == [op |-> "reset", seg |-> "message", arg |-> <<>>]
WriteOp(seg, d)  == [op |-> "write", seg |-> seg, arg |-> d]

\* line 125: t.fg(BRIGHT_BLACK)?
fg_timestamp(t) ==
    /\ pc[t] = "fg_timestamp"
    /\ \E ok \in BOOLEAN :
          SinkStep(t, FgOp("timestamp", "BRIGHT_BLACK"),
                   LogSink_fg(sink[t], "BRIGHT_BLACK", ok), "write_timestamp")

\* line 127: write!(t, "[{}] ", now().rfc3339())?
write_timestamp(t) ==
    /\ pc[t] = "write_timestamp"
    /\ \E ts \in Times, ok \in BOOLEAN :
          SinkStep(t, WriteOp("timestamp", TimestampText(ts)),
                   LogSink_write_fmt(sink[t], TimestampText(ts), ok),
                   AfterWrite(self[t], "timestamp"))

\* line 129: t.fg(BRIGHT_BLUE)?
fg_origin(t) ==
    /\ pc[t] = "fg_origin"
    /\ \E ok \in BOOLEAN :
          SinkStep(t, FgOp("origin", "BRIGHT_BLUE"),
                   LogSink_fg(sink[t], "BRIGHT_BLUE", ok), "write_origin")

\* line 131: write!(t, "[{}] ", record.module_path().unwrap_or("?"))?
write_origin(t) ==
    /\ pc[t] = "write_origin"
    /\ \E ok \in BOOLEAN :
          SinkStep(t, WriteOp("origin", OriginText(rec[t])),
                   LogSink_write_fmt(sink[t], OriginText(rec[t]), ok),
                   AfterWrite(self[t], "origin"))

\* lines 133-139: match record.level() { .. => t.fg(..)? }
fg_level(t) ==
    /\ pc[t] = "fg_level"
    /\ \E ok \in BOOLEAN :
          SinkStep(t, FgOp("level", LevelColor(rec[t].level)),
                   LogSink_fg(sink[t], LevelColor(rec[t].level), ok), "write_level")

\* line 141: write!(t, "[{}] ", record.level())?
write_level(t) ==
    /\ pc[t] = "write_level"
    /\ \E ok \in BOOLEAN :
          SinkStep(t, WriteOp("level", LevelText(rec[t])),
                   LogSink_write_fmt(sink[t], LevelText(rec[t]), ok),
                   AfterWrite(self[t], "level"))

\* line 143: t.reset()?
reset(t) ==
    /\ pc[t] = "reset"
    /\ \E ok \in BOOLEAN :
          SinkStep(t, ResetOp, LogSink_reset(sink[t], ok), "write_message")

\* lines 145-146: writeln!(t, "{}", record.args())?; Ok(())
write_message(t) ==
    /\ pc[t] = "write_message"
    /\ \E ok \in BOOLEAN :
          SinkStep(t, WriteOp("message", MessageText(rec[t])),
                   LogSink_write_fmt(sink[t], MessageText(rec[t]), ok), "return")

\* Mutant: the note is printed with eprintln!.
DiagStream_stderr == "stderr"

\* The stream println! writes to.
DiagStream == "stdout"

\* lines 111-113: if let Err(e) = .. { println!("Logging failed: {}", e) }.
\* println! panics when the write to the standard output fails; the panic unwinds
\* out of log into the thread that emitted the record.
log_failed(t) ==
    /\ pc[t] = "err"
    /\ diagTo' = [diagTo EXCEPT ![t] = DiagStream]
    /\ \E ok \in BOOLEAN :
          IF ok
            THEN /\ out' = [out EXCEPT ![t] = Append(@,
                               [stream |-> DiagStream, esc |-> FALSE,
                                data |-> <<"Logging failed: ", err[t], "\n">>])]
                 /\ pc' = [pc EXCEPT ![t] = "log_done"]
            ELSE /\ out' = out
                 /\ pc' = [pc EXCEPT ![t] = "panicked"]
    /\ UNCHANGED <<state, logger, max_level, arg, ret, entry, aside>>
    /\ UNCHANGED <<self, rec, term, sink, ops, err, handle, style>>

----------------------------------------------------------------------------
(* The whole program: threads register and emit records in any interleaving. *)

Next ==
    \E t \in Threads :
        \/ init(t)
        \/ \E l \in LevelFilters : init_with_level(t, l)
        \/ \E l \in LevelFilters : init_with_level_and_without_colors(t, l)
        \/ set_max_level(t)
        \/ \E r \in EmitRecords : Dispatch(t, r)
        \/ log(t)
        \/ log_result_new(t)
        \/ fg_timestamp(t)
        \/ write_timestamp(t)
        \/ fg_origin(t)
        \/ write_origin(t)
        \/ fg_level(t)
        \/ write_level(t)
        \/ reset(t)
        \/ write_message(t)
        \/ log_failed(t)

Spec == Init /\ [][Next]_vars

(* Logger::log applied to every Logger and every Record: two calls on the same
   record, one on a Logger with colours and one on the same Logger without. *)

InitFmt ==
    /\ state = "UNINITIALIZED"
    /\ logger = NoLogger
    /\ max_level = "Off"
    /\ arg = [t \in Threads |-> NoLogger]
    /\ ret = [t \in Threads |-> "none"]
    /\ pc  = [t \in Threads |-> "log"]
    /\ \E l \in LevelFilters, r \in Records :
          /\ self = [t \in Threads |-> [level |-> l, enable_colors |-> (t = "t1")]]
          /\ rec  = [t \in Threads |-> r]
    /\ term   = [t \in Threads |-> "unqueried"]
    /\ sink   = [t \in Threads |-> "none"]
    /\ ops    = [t \in Threads |-> <<>>]
    /\ out    = [t \in Threads |-> <<>>]
    /\ err    = [t \in Threads |-> "none"]
    /\ diagTo = [t \in Threads |-> "none"]
    /\ entry  = [t \in Threads |-> NoEntry]
    /\ handle = [t \in Threads |-> "none"]
    /\ style  = NotATty
    /\ own    = [t \in Threads |-> NoLogger]
    /\ conv   = [t \in Threads |-> NoConv]

NextFmt ==
    \E t \in Threads :
        \/ log(t)
        \/ log_result_new(t)
        \/ fg_timestamp(t)
        \/ write_timestamp(t)
        \/ fg_origin(t)
        \/ write_origin(t)
        \/ fg_level(t)
        \/ write_level(t)
        \/ reset(t)
        \/ write_message(t)
        \/ log_failed(t)

SpecFmt == InitFmt /\ [][NextFmt]_vars

----------------------------------------------------------------------------
(* Logger::disable_colors.  It takes `&mut self`: only a thread that holds a Logger by
   value can call it.  The Logger the init* functions build is moved into the facade
   at once, and the facade hands out `&'static dyn Log` only; so the Loggers it can be
   called on are those held by code of the crate itself.  The specification below
   gives thread t1 such a Logger next to the whole program. *)

\* Mutant: the setter reaches the registered Logger.
disable_colors_of_backend(t) ==
    /\ own[t] \in Loggers
    /\ state = "INITIALIZED"
    /\ logger' = [logger EXCEPT !.enable_colors = FALSE]
    /\ UNCHANGED <<state, max_level, pc, arg, ret, entry, call, style, aside>>

\* pub fn disable_colors(&mut self): self.enable_colors = false
disable_colors(t) ==
    /\ own[t] \in Loggers
    /\ own' = [own EXCEPT ![t] = [@ EXCEPT !.enable_colors = FALSE]]
    /\ UNCHANGED <<state, logger, max_level, pc, arg, ret, entry, call, style, conv>>

\* The threshold the entry points are called with next to a held Logger.
OwnLevels == {"Warn"}

InitOwn ==
    /\ state = "UNINITIALIZED"
    /\ logger = NoLogger
    /\ max_level = "Off"
    /\ pc  = [t \in Threads |-> "idle"]
    /\ arg = [t \in Threads |-> NoLogger]
    /\ ret = [t \in Threads |-> "none"]
    /\ entry = [t \in Threads |-> NoEntry]
    /\ style = NotATty
    /\ own  = [t \in Threads |->
                 IF t = "t1" THEN [level |-> "Info", enable_colors |-> TRUE] ELSE NoLogger]
    /\ conv = [t \in Threads |-> NoConv]
    /\ IdleCall

NextOwn ==
    \E t \in Threads :
        \/ disable_colors(t)
        \/ init(t)
        \/ \E l \in OwnLevels : init_with_level_and_without_colors(t, l)
        \/ set_max_level(t)
        \/ \E r \in EmitRecords : Dispatch(t, r)
        \/ log(t)
        \/ log_result_new(t)
        \/ fg_timestamp(t)
        \/ write_timestamp(t)
        \/ fg_origin(t)
        \/ write_origin(t)
        \/ fg_level(t)
        \/ write_level(t)
        \/ reset(t)
        \/ write_message(t)
        \/ log_failed(t)

SpecOwn == InitOwn /\ [][NextOwn]_vars

(* The same record handed twice to the registered Logger: both threads have emitted
   record r and the facade has forwarded it, for every Logger and every Record. *)

InitTwice ==
    /\ state = "INITIALIZED"
    /\ \E lg \in Loggers, r \in Records :
          /\ logger = lg
          /\ max_level = lg.level
          /\ self = [t \in Threads |-> lg]
          /\ rec  = [t \in Threads |-> r]
    /\ pc  = [t \in Threads |-> "log"]
    /\ arg = [t \in Threads |-> NoLogger]
    /\ ret = [t \in Threads |-> "none"]
    /\ entry  = [t \in Threads |-> NoEntry]
    /\ term   = [t \in Threads |-> "unqueried"]
    /\ sink   = [t \in Threads |-> "none"]
    /\ ops    = [t \in Threads |-> <<>>]
    /\ out    = [t \in Threads |-> <<>>]
    /\ err    = [t \in Threads |-> "none"]
    /\ diagTo = [t \in Threads |-> "none"]
    /\ handle = [t \in Threads |-> "none"]
    /\ style  = NotATty
    /\ own    = [t \in Threads |-> NoLogger]
    /\ conv   = [t \in Threads |-> NoConv]

SpecTwice == InitTwice /\ [][NextFmt]_vars

(* error.rs: the conversions into LogError, applied by any thread to any error. *)

\* <io::Error as Error>::description: the text of a custom error, else the kind's.
io_description(e) ==
    IF e.custom # "none" THEN e.custom
    ELSE CASE e.kind = "NotFound"   -> "entity not found"
           [] e.kind = "BrokenPipe" -> "broken pipe"
           [] e.kind = "Other"      -> "other os error"

\* <term::Error as Error>::description
term_description(e) ==
    CASE e.kind = "NotSupported"          -> "operation not supported by the terminal"
      [] e.kind = "TermUnset"             ->
             "TERM environment variable unset, unable to detect a terminal"
      [] e.kind = "TerminfoEntryNotFound" -> "could not find a terminfo entry for this terminal"
      [] e.kind = "ColorOutOfRange"       -> "color above terminal capabilities"

\* err.description() of line 60
description(e) == IF e.type = "io::Error" THEN io_description(e) ELSE term_description(e)

\* Mutant: the conversion files the error under ErrorType::Internal.
LogError_from_internal(e) ==
    [code |-> "Internal", description |-> description(e), cause |-> e]

\* from_error!: impl From<$p> for LogError
LogError_from(e) ==
    [code |-> "Other", description |-> description(e), cause |-> e]

\* pub fn bail(code, description)
LogError_bail(code, d) ==
    [code |-> code, description |-> d, cause |-> NoError]

\* let e: LogError = err.into()
from_error(t, e) ==
    /\ conv' = [conv EXCEPT ![t] =
                  [fn |-> "from", err |-> e, code |-> "none", description |-> "none",
                   result |-> LogError_from(e)]]
    /\ UNCHANGED <<state, logger, max_level, pc, arg, ret, entry, call, style, own>>

\* let e = bail(code, &d)
bail(t, code, d) ==
    /\ conv' = [conv EXCEPT ![t] =
                  [fn |-> "bail", err |-> NoError, code |-> code, description |-> d,
                   result |-> LogError_bail(code, d)]]
    /\ UNCHANGED <<state, logger, max_level, pc, arg, ret, entry, call, style, own>>

NextErr ==
    \E t \in Threads :
        \/ \E e \in IoErrors : from_error(t, e)
        \/ \E e \in TermErrors : from_error(t, e)
        \/ \E code \in ErrorTypes, d \in Displays : bail(t, code, d)

SpecErr == Init /\ [][NextErr]_vars

(* The program with a terminal behind stderr: init() registers the coloured Logger,
   the threads emit records, and the terminal shows what the bytes sent to it say. *)

InitTty ==
    /\ state = "UNINITIALIZED"
    /\ logger = NoLogger
    /\ max_level = "Off"
    /\ pc  = [t \in Threads |-> "idle"]
    /\ arg = [t \in Threads |-> NoLogger]
    /\ ret = [t \in Threads |-> "none"]
    /\ entry = [t \in Threads |-> NoEntry]
    /\ style = "default"
    /\ own  = [t \in Threads |-> NoLogger]
    /\ conv = [t \in Threads |-> NoConv]
    /\ IdleCall

NextTty ==
    \E t \in Threads :
        \/ init(t)
        \/ set_max_level(t)
        \/ \E r \in EmitRecords : Dispatch(t, r)
        \/ log(t)
        \/ log_result_new(t)
        \/ fg_timestamp(t)
        \/ write_timestamp(t)
        \/ fg_origin(t)
        \/ write_origin(t)
        \/ fg_level(t)
        \/ write_level(t)
        \/ reset(t)
        \/ write_message(t)
        \/ log_failed(t)

SpecTty == InitTty /\ [][NextTty]_vars

----------------------------------------------------------------------------
(* Vocabulary of the properties *)

\* The severity order Error < Warn < Info < Debug < Trace; the threshold Off lies below.
Order == <<"Error", "Warn", "Info", "Debug", "Trace">>

Rank(x) == IF x = "Off" THEN 0 ELSE CHOOSE i \in 1..Len(Order) : Order[i] = x

\* L <= T in that order
Admits(T, L) == Rank(L) <= Rank(T)

\* Thread t's call of Logger::log has taken its filter decision / went on to format.
Decided(t)   == pc[t] \notin {"idle", "init_done", "set_max_level", "log"} /\ self[t] # NoLogger
Formatted(t) == Decided(t) /\ ~(pc[t] = "log_done" /\ term[t] = "unqueried" /\ err[t] = "none")
Returned(t)  == Decided(t) /\ pc[t] = "log_done"

\* A step in which thread t makes a registration call.
Registers(t) ==
    /\ AtRest(t)
    /\ pc'[t] \in {"set_max_level", "init_done"}
    /\ <<pc[t], arg[t], ret[t]>> # <<pc'[t], arg'[t], ret'[t]>>

----------------------------------------------------------------------------
\* C1: a registration call succeeds exactly when no backend is installed; a call made
\* once a backend is installed returns AlreadyInitialized and changes neither the
\* installed Logger (threshold, colour flag) nor the facade's state and max level.
C1_FailedRegistrationLeavesBackend ==
    [][\A t \in Threads : Registers(t) =>
          /\ (pc'[t] = "set_max_level") <=> (state = "UNINITIALIZED")
          /\ (ret'[t] = "AlreadyInitialized") <=> (state = "INITIALIZED")
          /\ state = "INITIALIZED" =>
                /\ logger' = logger
                /\ state' = state
                /\ max_level' = max_level]_vars

\* A rejected registration whose arguments differ from the installed configuration.
C1_Witness ==
    \E t \in Threads :
        /\ pc[t] = "init_done" /\ ret[t] = "AlreadyInitialized"
        /\ arg[t].level # logger.level /\ arg[t].enable_colors # logger.enable_colors
        /\ max_level = logger.level /\ arg[t].level # max_level

\* C2: under any interleaving of registrations at most one call succeeds, the others
\* fail; the installed Logger is never replaced or removed; every record that is
\* formatted is formatted by the installed Logger, none before an installation.
C2_SingleBackend ==
    /\ [](/\ Cardinality({t \in Threads : pc[t] = "set_max_level" \/ ret[t] = "Ok"}) <= 1
          /\ (state = "INITIALIZED") <=> (logger \in Loggers)
          /\ (state = "UNINITIALIZED") <=> (logger = NoLogger)
          /\ \A t \in Threads :
                /\ (pc[t] = "set_max_level" \/ ret[t] = "Ok") => logger = arg[t]
                /\ (pc[t] = "log" \/ Decided(t)) =>
                      state = "INITIALIZED" /\ self[t] = logger)
    /\ [][/\ state = "INITIALIZED" => (state' = "INITIALIZED" /\ logger' = logger)
          /\ \A t \in Threads : Registers(t) =>
                ((pc'[t] = "set_max_level") <=> (state = "UNINITIALIZED"))]_vars

\* Two overlapping registrations: one has installed and is still inside its call
\* when the other is rejected.
C2_Witness ==
    \E a, b \in Threads :
        /\ a # b
        /\ pc[a] = "set_max_level"
        /\ pc[b] = "init_done" /\ ret[b] = "AlreadyInitialized" /\ arg[b] # arg[a]

\* C3: Logger::enabled admits level L under threshold T iff L <= T in the order
\* Error < Warn < Info < Debug < Trace: Trace admits all five, Error only Error.
C3_EnabledIffLevelLeThreshold ==
    \A t \in Threads : Decided(t) =>
        /\ Formatted(t) <=> Admits(self[t].level, rec[t].level)
        /\ self[t].level = "Trace" => Formatted(t)
        /\ self[t].level = "Error" => (Formatted(t) <=> rec[t].level = "Error")

\* A record exactly at the threshold is admitted.
C3_Witness ==
    \E t \in Threads :
        Formatted(t) /\ self[t].level = "Info" /\ rec[t].level = "Info"

----------------------------------------------------------------------------
(* What a call issued and what reached the streams *)

SeqMap(f(_), q) == [i \in 1..Len(q) |-> f(q[i])]

IsWrite(o)   == o.op = "write"
IsStyle(o)   == o.op \in {"fg", "reset"}
ArgOf(o)     == o.arg
DataOf(x)    == x.data
OnStdout(x)  == x.stream = "stdout"
IsEsc(x)     == x.esc
IsErrText(x) == x.stream = "stderr" /\ ~x.esc

\* The texts of the write operations issued, in order
WritesIssued(q) == SeqMap(ArgOf, SelectSeq(q, IsWrite))

\* The texts that reached the error stream, in order
TextOut(t) == SeqMap(DataOf, SelectSeq(out[t], IsErrText))

\* The operations that completed: all of them, or all but the last when it failed
Completed(t) == IF err[t] = "none" THEN ops[t] ELSE SubSeq(ops[t], 1, Len(ops[t]) - 1)

\* The timestamp a call printed, "none" if it issued no timestamp write
StampOf(t) ==
    LET w == SelectSeq(ops[t], IsWrite)
    IN  IF w = <<>> THEN "none" ELSE w[1].arg[2]

\* One complete line: the four segments in order, the last ending the line
OneLine(t) ==
    /\ Len(TextOut(t)) = 4
    /\ TextOut(t) = <<TimestampText(StampOf(t)), OriginText(rec[t]),
                      LevelText(rec[t]), MessageText(rec[t])>>
    /\ TextOut(t)[4][Len(TextOut(t)[4])] = "\n"

NoEffect(t) ==
    /\ term[t] = "unqueried" /\ sink[t] = "none"
    /\ ops[t] = <<>> /\ out[t] = <<>>
    /\ err[t] = "none" /\ diagTo[t] = "none"

----------------------------------------------------------------------------
\* C4 as stated: a record that is not enabled has no effect at all, and every
\* enabled record produces exactly one output line.
C4_Original ==
    \A t \in Threads : Returned(t) =>
        IF Admits(self[t].level, rec[t].level) THEN OneLine(t) ELSE NoEffect(t)

\* C4, amended: a record that is not enabled has no effect at all (no sink acquired,
\* no operation issued, nothing on any stream); an enabled record all of whose sink
\* operations succeed produces exactly one output line and nothing else.
C4_DisabledNoEffect ==
    \A t \in Threads : Returned(t) =>
        /\ ~Admits(self[t].level, rec[t].level) => NoEffect(t)
        /\ (Admits(self[t].level, rec[t].level) /\ err[t] = "none") =>
              /\ OneLine(t)
              /\ SelectSeq(out[t], OnStdout) = <<>>

\* Threshold Warn, record Info: the call has returned.
C4_Witness ==
    \E t \in Threads :
        Returned(t) /\ self[t].level = "Warn" /\ rec[t].level = "Info"

\* C5 as stated: whatever operation fails, Logger::log returns normally to the
\* thread that emitted the record.
C5_Original ==
    \A t \in Threads : (err[t] # "none" /\ pc[t] # "err") => pc[t] = "log_done"

\* C6 as stated: the note on a failed record goes to the stream the Fallback wraps.
C6_Original ==
    \A t \in Threads : diagTo[t] # "none" => diagTo[t] = SinkStream

\* C6, amended: whenever log_result fails, Logger::log prints its note once, with
\* println!, that is to the standard output and never to the error stream; when
\* nothing failed there is no note.
C6_DiagnosticOnStdout ==
    \A t \in Threads :
        /\ (err[t] # "none" /\ pc[t] \in {"log_done", "panicked"}) =>
              /\ diagTo[t] = "stdout"
              /\ Len(TextOut(t)) = Len(WritesIssued(Completed(t)))
        /\ (err[t] # "none" /\ pc[t] = "log_done") =>
              /\ SeqMap(DataOf, SelectSeq(out[t], OnStdout))
                    = << <<"Logging failed: ", err[t], "\n">> >>
              /\ out[t][Len(out[t])].stream = "stdout"
        /\ (err[t] = "none" \/ pc[t] = "err") =>
              /\ diagTo[t] = "none"
              /\ SelectSeq(out[t], OnStdout) = <<>>

\* A failed record whose note has been printed.
C6_Witness ==
    \E t \in Threads :
        /\ pc[t] = "log_done" /\ err[t] = "io::Error"
        /\ SelectSeq(out[t], OnStdout) # <<>>

----------------------------------------------------------------------------
\* The order of operations the specification fixes, as <<operation, segment>>
StepOrder(colors) ==
    IF colors
      THEN << <<"fg", "timestamp">>, <<"write", "timestamp">>,
              <<"fg", "origin">>,    <<"write", "origin">>,
              <<"fg", "level">>,     <<"write", "level">>,
              <<"reset", "message">>, <<"write", "message">> >>
      ELSE << <<"write", "timestamp">>, <<"write", "origin">>,
              <<"write", "level">>,     <<"write", "message">> >>

ShapeOf(o) == <<o.op, o.seg>>

IsOriginWrite(o) == o.op = "write" /\ o.seg = "origin"

\* C7: the operations of an enabled record are issued in the fixed order
\* [fg] timestamp, [fg] origin (the module path, or "?"), [fg] level, [reset],
\* message; the first operation that fails is the last one issued, what was written
\* before it stays written, and a call in which none fails issues them all.
C7_FixedOrderAbortOnFailure ==
    \A t \in Threads : Formatted(t) =>
        LET order == StepOrder(self[t].enable_colors)
            n     == Len(ops[t])
        IN  /\ n <= Len(order)
            /\ SeqMap(ShapeOf, ops[t]) = SubSeq(order, 1, n)
            /\ \A i \in 1..n : IsOriginWrite(ops[t][i]) =>
                  ops[t][i].arg = <<"[", IF rec[t].module_path = "None" THEN "?"
                                         ELSE rec[t].module_path, "] ">>
            /\ TextOut(t) = WritesIssued(Completed(t))
            /\ err[t] # "none" => (n >= 1 /\ pc[t] \in {"err", "log_done", "panicked"})
            /\ (pc[t] = "log_done" /\ err[t] = "none") => n = Len(order)
            /\ (err[t] = "none" /\ pc[t] # "log_done") => pc[t] = "new" \/ n < Len(order)

\* With colours on, the write of the origin "?" fails after the timestamp was written.
C7_Witness ==
    \E t \in Threads :
        /\ self[t].enable_colors /\ rec[t].module_path = "None"
        /\ err[t] = "io::Error" /\ Len(ops[t]) = 4 /\ Len(TextOut(t)) = 1
        /\ pc[t] = "log_done"

\* C8: a Logger with colours off issues no fg and no reset on either sink variant
\* and sends no escape to the stream; its text writes are those the same record
\* gets, at the same time, from the Logger with colours on.
C8_PlainEqualsColouredText ==
    /\ \A t \in Threads : (Formatted(t) /\ ~self[t].enable_colors) =>
          /\ SelectSeq(ops[t], IsStyle) = <<>>
          /\ SelectSeq(out[t], IsEsc) = <<>>
    /\ \A a, b \in Threads :
          ( /\ Returned(a) /\ Returned(b)
            /\ Formatted(a) /\ Formatted(b)
            /\ err[a] = "none" /\ err[b] = "none"
            /\ rec[a] = rec[b] /\ StampOf(a) = StampOf(b)
            /\ self[a].enable_colors /\ ~self[b].enable_colors )
          => /\ WritesIssued(ops[a]) = WritesIssued(ops[b])
             /\ TextOut(a) = TextOut(b)
             /\ Len(WritesIssued(ops[b])) = 4

\* The same record formatted with colours on a terminal and without colours.
C8_Witness ==
    \E a, b \in Threads :
        /\ Returned(a) /\ Returned(b) /\ err[a] = "none" /\ err[b] = "none"
        /\ self[a].enable_colors /\ ~self[b].enable_colors
        /\ term[a] = "Some" /\ Len(ops[a]) = 8 /\ Len(ops[b]) = 4
        /\ StampOf(a) = StampOf(b)
        /\ SelectSeq(out[a], IsEsc) # <<>>

\* The table of the specification: level -> foreground colour
ColourTable ==
    [Error |-> "BRIGHT_RED", Warn |-> "BRIGHT_YELLOW", Info |-> "BRIGHT_GREEN",
     Debug |-> "BRIGHT_CYAN", Trace |-> "BRIGHT_WHITE"]

\* The colour the specification gives segment seg of record r
SegmentColour(seg, r) ==
    CASE seg = "timestamp" -> "BRIGHT_BLACK"
      [] seg = "origin"    -> "BRIGHT_BLUE"
      [] seg = "level"     -> ColourTable[r.level]

\* C9: with colours on, the operation issued immediately before the write of the
\* level segment sets the foreground the table gives the record's level; before the
\* timestamp it sets bright black and before the origin bright blue, whatever the
\* level.  On a terminal that colour is the escape that precedes the segment.
C9_LevelColourTable ==
    \A t \in Threads : (Formatted(t) /\ self[t].enable_colors) =>
        /\ \A i \in 1..Len(ops[t]) :
              /\ ops[t][i].op = "fg" =>
                    ops[t][i].arg = <<SegmentColour(ops[t][i].seg, rec[t])>>
              /\ (ops[t][i].op = "write" /\ ops[t][i].seg # "message") =>
                    /\ i > 1
                    /\ ops[t][i-1].op = "fg" /\ ops[t][i-1].seg = ops[t][i].seg
        /\ \A j \in 1..Len(out[t]) :
              ( /\ out[t][j].stream = "stderr" /\ ~out[t][j].esc
                /\ term[t] = "Some"
                /\ out[t][j].data = LevelText(rec[t]) )
              => /\ j > 1
                 /\ out[t][j-1] = [stream |-> "stderr", esc |-> TRUE,
                                    data |-> <<"setaf", ColourTable[rec[t].level]>>]

\* A Warn record whose level segment reached the terminal.
C9_Witness ==
    \E t \in Threads :
        /\ self[t].enable_colors /\ rec[t].level = "Warn" /\ term[t] = "Some"
        /\ Len(TextOut(t)) >= 3

\* C10: acquiring a sink never fails; without a terminal it is the Fallback, on
\* which fg and reset succeed and send nothing; so the record comes out as the
\* plain line with no escape, and only a failed stream write can fail the call.
C10_FallbackDegradesToPlainLine ==
    \A t \in Threads : Formatted(t) =>
        /\ pc[t] # "new" => term[t] \in {"Some", "None"}
        /\ (pc[t] \notin {"new", "err", "log_done", "panicked"}) =>
              /\ sink[t] \in {"Terminal", "Fallback"}
              /\ (term[t] = "None") <=> (sink[t] = "Fallback")
        /\ term[t] = "None" =>
              /\ SelectSeq(out[t], IsEsc) = <<>>
              /\ err[t] \in {"none", "io::Error"}
              /\ err[t] = "io::Error" => IsWrite(ops[t][Len(ops[t])])
              /\ (Returned(t) /\ err[t] = "none") =>
                    /\ OneLine(t)
                    /\ SeqMap(DataOf, out[t]) = TextOut(t)

\* Colours on, no terminal: the call completed on the Fallback.
C10_Witness ==
    \E t \in Threads :
        /\ term[t] = "None" /\ self[t].enable_colors
        /\ Returned(t) /\ err[t] = "none" /\ Len(ops[t]) = 8

----------------------------------------------------------------------------
\* The configuration the documentation of an entry point promises to install.
Documented(e) ==
    CASE e.fn = "init" -> [level |-> "Trace", enable_colors |-> TRUE]
      [] e.fn = "init_with_level" -> [level |-> e.log_level, enable_colors |-> TRUE]
      [] e.fn = "init_with_level_and_without_colors" ->
             [level |-> e.log_level, enable_colors |-> FALSE]

\* Thread t's registration call installed the backend.
Installed(t) == pc[t] = "set_max_level" \/ ret[t] = "Ok"

\* C11: a successful init() installs a Logger with threshold Trace and colours on;
\* init_with_level(l) installs threshold l with colours on;
\* init_with_level_and_without_colors(l) installs threshold l with colours off.
C11_EntryPointsInstallDocumented ==
    \A t \in Threads : Installed(t) =>
        /\ entry[t].fn \in {"init", "init_with_level", "init_with_level_and_without_colors"}
        /\ logger = Documented(entry[t])

\* init_with_level_and_without_colors(Warn) installed the backend, and a later init()
\* of the other thread was rejected.
C11_Witness ==
    \E t, u \in Threads :
        /\ ret[t] = "Ok"
        /\ entry[t] = [fn |-> "init_with_level_and_without_colors", log_level |-> "Warn"]
        /\ logger = [level |-> "Warn", enable_colors |-> FALSE]
        /\ ret[u] = "AlreadyInitialized" /\ entry[u].fn = "init"

----------------------------------------------------------------------------
\* C12: the configuration of the registered Logger does not change after registration,
\* under any interleaving with concurrent handle calls: its threshold and colour flag
\* stay the values given at registration, and every handle call reads them.
\* disable_colors takes effect only on a Logger that is not registered; it never
\* changes the colour flag of the active backend or of a running handle call.
C12_RegisteredConfigImmutable ==
    /\ [](\A t \in Threads :
             /\ Installed(t) => logger = arg[t]
             /\ (pc[t] = "log" \/ Decided(t)) => self[t] = logger)
    /\ [][state = "INITIALIZED" => logger' = logger]_vars
    /\ [][\A t \in Threads : own'[t] # own[t] =>
             /\ own[t] \in Loggers
             /\ own'[t] = [level |-> own[t].level, enable_colors |-> FALSE]
             /\ logger' = logger /\ self' = self]_vars

\* disable_colors has taken effect on the Logger thread t1 holds while the backend,
\* registered with colours, is formatting a record in colour.
C12_Witness ==
    /\ own["t1"] = [level |-> "Info", enable_colors |-> FALSE]
    /\ logger = [level |-> "Trace", enable_colors |-> TRUE]
    /\ \E t \in Threads : pc[t] = "write_level" /\ self[t] = logger /\ Len(out[t]) = 5

----------------------------------------------------------------------------
\* An operation / a delivery with the timestamp it carries blanked
NoStampOp(o) ==
    IF o.op = "write" /\ o.seg = "timestamp" THEN [o EXCEPT !.arg = TimestampText("now")] ELSE o

NoStampOut(x) ==
    IF ~x.esc /\ x.stream = "stderr" /\ x.data \in {TimestampText(ts) : ts \in Times}
      THEN [x EXCEPT !.data = TimestampText("now")] ELSE x

OpsNoStamp(t) == SeqMap(NoStampOp, ops[t])
OutNoStamp(t) == SeqMap(NoStampOut, out[t])

\* The call of thread t formatted its record and every sink operation succeeded.
Succeeded(t) == Returned(t) /\ Formatted(t) /\ err[t] = "none"

ShorterLen(p, q) == IF Len(p) <= Len(q) THEN Len(p) ELSE Len(q)

\* C13 as stated: two formattings of the same record by the same Logger, each through
\* its own sink, issue the same operations and deliver byte-identical output apart
\* from the timestamp.
C13_Original ==
    \A a, b \in Threads :
        (Succeeded(a) /\ Succeeded(b) /\ self[a] = self[b] /\ rec[a] = rec[b]) =>
            /\ OpsNoStamp(a) = OpsNoStamp(b)
            /\ OutNoStamp(a) = OutNoStamp(b)

\* C13: two formattings of the same record by the same Logger issue, apart from the
\* timestamp, the same style operations and text writes in the same order as far as
\* both get; when both succeed they issue the same sequence and deliver the same
\* text, and the same bytes if both acquisitions found the same kind of sink.
C13_SameOperationsSameSink ==
    \A a, b \in Threads :
        (Formatted(a) /\ Formatted(b) /\ self[a] = self[b] /\ rec[a] = rec[b]) =>
            LET n == ShorterLen(ops[a], ops[b])
            IN  /\ SubSeq(OpsNoStamp(a), 1, n) = SubSeq(OpsNoStamp(b), 1, n)
                /\ (Succeeded(a) /\ Succeeded(b)) =>
                      /\ OpsNoStamp(a) = OpsNoStamp(b)
                      /\ SeqMap(DataOf, SelectSeq(OutNoStamp(a), IsErrText))
                            = SeqMap(DataOf, SelectSeq(OutNoStamp(b), IsErrText))
                      /\ sink[a] = sink[b] /\ term[a] = term[b] => OutNoStamp(a) = OutNoStamp(b)

\* Both calls succeeded with colours on, at different times, one on a terminal and
\* one on the fallback stream.
C13_Witness ==
    /\ \A t \in Threads : Succeeded(t) /\ self[t].enable_colors
    /\ rec["t1"] = rec["t2"]
    /\ StampOf("t1") # StampOf("t2")
    /\ term["t1"] = "Some" /\ term["t2"] = "None"
    /\ OpsNoStamp("t1") = OpsNoStamp("t2")
    /\ OutNoStamp("t1") # OutNoStamp("t2")

----------------------------------------------------------------------------
\* C14: converting an io::Error or a term::Error into a LogError yields the code
\* Other, the description of the source error and the source error as cause;
\* bail(code, description) yields the given code and description and no cause.
C14_ConversionKeepsDescriptionAndCause ==
    \A t \in Threads :
        /\ conv[t].fn = "from" =>
              /\ conv[t].err \in IoErrors \cup TermErrors
              /\ conv[t].result.code = "Other"
              /\ conv[t].result.description = description(conv[t].err)
              /\ conv[t].result.cause = conv[t].err
        /\ conv[t].fn = "bail" =>
              /\ conv[t].result.code = conv[t].code
              /\ conv[t].result.description = conv[t].description
              /\ conv[t].result.cause = NoError

\* The two conversions of tests/lib.rs, and a bail with ErrorType::Internal.
C14_Witness ==
    \E t, u \in Threads :
        /\ conv[t].fn = "from"
        /\ conv[t].err = [type |-> "io::Error", kind |-> "NotFound", custom |-> "Not found"]
        /\ conv[t].result.description = "Not found"
        /\ \/ /\ conv[u].fn = "from"
              /\ conv[u].err = [type |-> "term::Error", kind |-> "NotSupported", custom |-> "none"]
              /\ conv[u].result.description = "operation not supported by the terminal"
           \/ /\ conv[u].fn = "bail"
              /\ conv[u].result = [code |-> "Internal", description |-> "boom", cause |-> NoError]

----------------------------------------------------------------------------
\* Where log_result is while its LogSink `t` is in scope
SinkScope ==
    {"fg_timestamp", "write_timestamp", "fg_origin", "write_origin",
     "fg_level", "write_level", "reset", "write_message"}

\* C15: a sink lives within one handle call.  An enabled call acquires one new sink at
\* its start and no other; every operation of the call is issued while the call
\* holds that sink; the sink is released on every way out of the formatting,
\* success or failing step; no sink is held by two threads at a time, and none is
\* held by a thread that is not inside the formatting.
C15_SinkScopedToCall ==
    /\ [](\A t \in Threads :
             /\ (handle[t] # "none") <=> (pc[t] \in SinkScope)
             /\ (handle[t] # "none") <=> (sink[t] # "none")
             /\ handle[t] # "none" => term[t] # "unqueried"
             /\ \A u \in Threads \ {t} : handle[t] # "none" => handle[u] # handle[t])
    /\ [][\A t \in Threads :
             /\ (handle'[t] # handle[t] /\ handle'[t] # "none") =>
                   /\ pc[t] = "new" /\ handle[t] = "none"
                   /\ term[t] = "unqueried" /\ ops[t] = <<>>
                   /\ \A u \in Threads : handle[u] # handle'[t]
             /\ (ops'[t] # ops[t] /\ ops'[t] # <<>>) =>
                   /\ handle[t] # "none"
                   /\ handle'[t] \in {handle[t], "none"}
                   /\ handle'[t] = "none" <=> pc'[t] \in {"log_done", "err"}]_vars

\* Two calls in flight, each on its own sink, one of them on a sink value that an
\* earlier, finished call had used.
C15_Witness ==
    /\ handle["t1"] = "sink2" /\ handle["t2"] = "sink1"
    /\ Len(ops["t1"]) >= 2 /\ Len(ops["t2"]) >= 1
    /\ pc["t1"] = "write_origin" /\ pc["t2"] \in SinkScope

----------------------------------------------------------------------------
\* The next step of thread t's call of Logger::log
HandlerStep(t) ==
    \/ log(t)
    \/ log_result_new(t)
    \/ fg_timestamp(t)
    \/ write_timestamp(t)
    \/ fg_origin(t)
    \/ write_origin(t)
    \/ fg_level(t)
    \/ write_level(t)
    \/ reset(t)
    \/ write_message(t)
    \/ log_failed(t)

\* C16 as stated: every handle call returns, whatever the other threads do.  A call
\* that has not returned can always take its next step (it waits on no lock and on
\* no thread), it issues each sink operation at most once, and after a failed
\* operation it issues no further one (no retry) and returns.
C16_Original ==
    \A t \in Threads : pc[t] \notin {"idle", "init_done", "set_max_level"} =>
        /\ pc[t] = "log_done" \/ ENABLED HandlerStep(t)
        /\ \A i, j \in 1..Len(ops[t]) : i < j => ShapeOf(ops[t][i]) # ShapeOf(ops[t][j])
        /\ err[t] # "none" => pc[t] \in {"err", "log_done"}

----------------------------------------------------------------------------
\* Thread t's call formats in colour on a terminal sink.
OnTerminal(t) == self[t].enable_colors /\ sink[t] = "Terminal"

LastOp(t) == ops[t][Len(ops[t])]

\* C17 as stated: with colours on a terminal the reset precedes the message write, no
\* foreground set by any call, of this or of another thread, is in effect when the
\* message bytes are written, and a call that completes leaves the terminal reset.
C17_Original ==
    [][\A t \in Threads : (OnTerminal(t) /\ pc[t] = "write_message") =>
          /\ LastOp(t) = ResetOp
          /\ out'[t] # out[t] => style = "default"
          /\ (pc'[t] = "log_done" /\ err'[t] = "none") => style' = "default"]_vars

\* C17: with colours on a terminal the call's own reset takes the terminal to its
\* default style and is the last operation before the message write; between the
\* reset and the end of the call the call itself does not change the style: only a
\* style operation of another thread does.
C17_OwnResetPrecedesMessage ==
    [][\A t \in Threads : OnTerminal(t) =>
          /\ (pc[t] = "reset" /\ pc'[t] = "write_message") => style' = "default"
          /\ pc[t] = "write_message" =>
                /\ LastOp(t) = ResetOp
                /\ style' # style =>
                      \E u \in Threads \ {t} :
                          /\ ops'[u] # ops[u] /\ ops'[u] # <<>>
                          /\ IsStyle(ops'[u][Len(ops'[u])])
                /\ (out'[t] # out[t] \/ pc'[t] # pc[t]) => style' = style]_vars

\* A call in colour on the terminal has completed, every operation succeeded, and
\* the terminal is left showing a foreground colour.
C17_Witness ==
    \E t \in Threads :
        /\ Succeeded(t) /\ self[t].enable_colors /\ term[t] = "Some"
        /\ style \notin {"default", NotATty}

----------------------------------------------------------------------------
\* C18: the facade's max level is set by a registration call only if that call
\* succeeds, and then to the threshold of the Logger it installed; a rejected call
\* with another level leaves it alone.  Hence once a registration has succeeded
\* (the call has returned Ok) the max level equals the threshold of the active
\* Logger in every state; until then it is the facade's initial Off.
C18_MaxLevelIsThreshold ==
    /\ [](/\ (state = "INITIALIZED" /\ \A t \in Threads : pc[t] # "set_max_level") =>
                max_level = logger.level
          /\ (state = "UNINITIALIZED" \/ \E t \in Threads : pc[t] = "set_max_level") =>
                max_level = "Off"
          /\ \A t \in Threads : ret[t] = "Ok" => max_level = arg[t].level)
    /\ [][max_level' # max_level =>
             \E t \in Threads :
                 /\ pc[t] = "set_max_level" /\ ret'[t] = "Ok"
                 /\ max_level' = logger.level /\ logger = arg[t]]_vars
    /\ [][\A t \in Threads :
             /\ (Registers(t) /\ ret'[t] = "AlreadyInitialized") => max_level' = max_level
             /\ (ret[t] # "Ok" /\ ret'[t] = "Ok") => max_level' = logger.level]_vars

\* A registration with threshold Warn has succeeded and a later one asking for Trace
\* was rejected.
C18_Witness ==
    \E t, u \in Threads :
        /\ ret[t] = "Ok" /\ arg[t].level = "Warn"
        /\ ret[u] = "AlreadyInitialized" /\ arg[u].level = "Trace"
        /\ max_level = "Warn" /\ logger.level = "Warn"

====
